---- MODULE Spec2Model ----
(***************************************************************************)
(* Model of the TCP relay hub of src/server/server.py: the frame codec     *)
(* (read_data / send_data), the two shared dictionaries conn_dict and      *)
(* user_dict, and one worker thread per accepted connection running        *)
(* create_connection.  Threads interleave between any two accesses to the  *)
(* shared dictionaries or to a socket; nothing in the source locks them.   *)
(***************************************************************************)
EXTENDS Integers, Sequences, FiniteSets, TLC

(***************************************************************************)
(* Bounds of the model.                                                    *)
(***************************************************************************)
\* number of client connections the listener accepts
NumConn == 2
\* total number of frames the workers read from their sockets
MaxFrames == 2
\* largest message id the persistence service hands out
MaxId == 1
\* longest payload of the codec round trip
MaxLen == 2

Addr == 1 .. NumConn

(***************************************************************************)
(* Strings are sequences of one-character strings.                         *)
(***************************************************************************)
HOME == <<"h", "o", "m", "e">>
SERVER_PREFIX == <<"s", "e", "r", "v", "e", "r", ":">>

\* str.split(sep): the fields between the separators, always at least one
RECURSIVE SplitFrom(_, _, _)
SplitFrom(s, sep, cur) ==
    IF s = <<>> THEN <<cur>>
    ELSE IF Head(s) = sep THEN <<cur>> \o SplitFrom(Tail(s), sep, <<>>)
    ELSE SplitFrom(Tail(s), sep, Append(cur, Head(s)))

Split(s, sep) == SplitFrom(s, sep, <<>>)

\* str.replace(" ", "")
StripSpaces(s) == SelectSeq(s, LAMBDA c : c # " ")

Digit(d) == CASE d = 0 -> "0" [] d = 1 -> "1" [] d = 2 -> "2" [] d = 3 -> "3"
              [] d = 4 -> "4" [] d = 5 -> "5" [] d = 6 -> "6" [] d = 7 -> "7"
              [] d = 8 -> "8" [] d = 9 -> "9"

\* str(n) of a natural number: its decimal digits
RECURSIVE Str(_)
Str(n) == IF n < 10 THEN <<Digit(n)>> ELSE Str(n \div 10) \o <<Digit(n % 10)>>

(***************************************************************************)
(* Commands: the enumeration of src/tools/commands.py.                     *)
(***************************************************************************)
MESSAGE == 0
HELLO_WORLD == 1
WELCOME == 2
GOOD_BYE == 3
CONN_NB == 4
ADD_REACT == 5
RM_REACT == 6
LAST_ID == 7
Commands == {MESSAGE, HELLO_WORLD, WELCOME, GOOD_BYE, CONN_NB, ADD_REACT,
             RM_REACT, LAST_ID}

(***************************************************************************)
(* UTF-8.  The characters of the model and their code points; a code point *)
(* below 128 is one byte, one below 2048 is two bytes.                     *)
(***************************************************************************)
NEWLINE == 10

Ord(c) == CASE c = "\n" -> 10 [] c = " " -> 32
            [] c = "0" -> 48 [] c = "1" -> 49 [] c = "2" -> 50 [] c = "3" -> 51
            [] c = "4" -> 52 [] c = "5" -> 53 [] c = "6" -> 54 [] c = "7" -> 55
            [] c = "8" -> 56 [] c = "9" -> 57
            [] c = ":" -> 58 [] c = ";" -> 59
            [] c = "a" -> 97 [] c = "b" -> 98 [] c = "e" -> 101
            [] c = "h" -> 104 [] c = "m" -> 109 [] c = "o" -> 111
            [] c = "r" -> 114 [] c = "s" -> 115 [] c = "v" -> 118
            [] c = "x" -> 120 [] c = "é" -> 233

Alphabet == {"\n", " ", "0", "1", "2", "3", "4", "5", "6", "7", "8", "9", ":",
             ";", "a", "b", "e", "h", "m", "o", "r", "s", "v", "x", "é"}

Chr(n) == CHOOSE c \in Alphabet : Ord(c) = n

\* str.encode("utf-8")
RECURSIVE Utf8Encode(_)
Utf8Encode(s) ==
    IF s = <<>> THEN <<>>
    ELSE LET n == Ord(Head(s))
         IN  (IF n < 128 THEN <<n>>
              ELSE <<192 + (n \div 64), 128 + (n % 64)>>) \o Utf8Encode(Tail(s))

\* bytes.decode("utf-8") of well-formed one- and two-byte sequences
RECURSIVE Utf8Decode(_)
Utf8Decode(b) ==
    IF b = <<>> THEN <<>>
    ELSE IF Head(b) < 128 THEN <<Chr(Head(b))>> \o Utf8Decode(Tail(b))
    ELSE <<Chr((Head(b) - 192) * 64 + (b[2] - 128))>>
             \o Utf8Decode(Tail(Tail(b)))

\* a send_data that ignores is_from_server
send_data_unmarked(header, payload, is_from_server) ==
    <<header>> \o Utf8Encode(payload \o <<"\n">>)

\* send_data: the bytes handed to conn.send
send_data(header, payload, is_from_server) ==
    LET message == (IF is_from_server THEN SERVER_PREFIX \o payload
                    ELSE payload) \o <<"\n">>
    IN  <<header>> \o Utf8Encode(message)

\* the bytes recv(1) collects before the first newline or the end of the stream
RECURSIVE UpToNewline(_)
UpToNewline(stream) ==
    IF stream = <<>> \/ Head(stream) = NEWLINE THEN <<>>
    ELSE <<Head(stream)>> \o UpToNewline(Tail(stream))

\* Python's None where a str is expected, where the header byte is expected,
\* where an address is expected and where a message id is expected
None == <<"None">>
NoHeader == -1
NoAddr == 0
NoId == -1
\* no persistence call was made; no exception was raised; no frame received
NoCall == "nocall"
NoExc == "none"
NoFrame == <<>>

\* read_data: header and payload of the next frame of the stream
read_data(stream) ==
    LET raw_data == UpToNewline(stream)
    IN  IF raw_data # <<>>
        THEN [header |-> Head(raw_data), payload |-> Utf8Decode(Tail(raw_data))]
        ELSE [header |-> NoHeader, payload |-> None]

(***************************************************************************)
(* What the clients put on the wire.  A client frames its data the way     *)
(* send_data does: one command byte, the payload, a newline.               *)
(***************************************************************************)
\* a command byte outside the enumeration
INVALID_COMMAND == LAST_ID + 2

ClientFrames ==
    { <<MESSAGE, <<"a", ":", "b", ":", "x">> >>,
      <<MESSAGE, <<"b", ":", "h", "o", "m", "e", ":", "x">> >>,
      <<HELLO_WORLD, <<"b", ":", "a", ":", "x">> >>,
      <<MESSAGE, <<"a", " ", ":", "b", ":", "x", ":", "1">> >>,
      <<MESSAGE, <<"h", "o", "m", "e", ":", "a", ":", "x">> >>,
      <<ADD_REACT, <<"a", ":", "b", ":", "1", ";", "2">> >>,
      <<RM_REACT, <<"a", ":", "b", ":", "1">> >>,
      <<INVALID_COMMAND, <<"a", ":", "b", ":", "x">> >>,
      <<MESSAGE, <<"a", ":", "b">> >>,
      <<WELCOME, <<"a">> >>,
      <<GOOD_BYE, <<>> >> }

ClientStreams == { <<f[1]>> \o Utf8Encode(f[2] \o <<"\n">>) : f \in ClientFrames }

\* read_data on each of these streams
Received == [stream \in ClientStreams |-> read_data(stream)]

(***************************************************************************)
(* The state.  conn_dict and user_dict are Python dicts: their keys in     *)
(* insertion order.  The value conn_dict holds for an address is that      *)
(* address's socket, so the key stands for both.                           *)
(***************************************************************************)
VARIABLES
    conn_dict,   \* Server.conn_dict: the registered addresses, in insertion order
    user_dict,   \* Server.user_dict: records [name, addr], in insertion order
    sock,        \* per address: the server's socket "unborn", "open" or "closed"
    peer,        \* per address: the client end "up" or "gone"
    pc,          \* per address: where its worker thread stands
    hdr,         \* per worker: header of the frame being processed
    inp,         \* per worker: payload of that frame as it was read
    payload,     \* per worker: local payload (prefixed once the id is known)
    receiver,    \* per worker: local receiver
    bres,        \* per worker: how the persistence call of the frame ended
    mid,         \* per worker: message id the persistence call returned
    got,         \* per worker: relays of the frame delivered so far, per address
    targets,     \* per worker: the addresses registered when its broadcast began
    it,          \* per worker: the dict iterator of its running for loop
    tgt,         \* per worker: address whose socket the loop or lookup yielded
    key,         \* per worker: user_dict key the unregister loop is about to pop
    msg,         \* per worker: local message of the CONN_NB notice
    exc,         \* per worker: the exception that ended or diverted it
    lastNb,      \* per address: bytes of the last CONN_NB frame its client got
    nframes,     \* frames read so far by all workers
    codec        \* the frame codec on its own: what is encoded, then decoded

vars == <<conn_dict, user_dict, sock, peer, pc, hdr, inp, payload, receiver,
          bres, mid, got, targets, it, tgt, key, msg, exc, lastNb, nframes,
          codec>>

NoCodec == [phase |-> "off"]
NoIt == [pos |-> 0, len |-> 0, used |-> 0]
NoGot == [a \in Addr |-> 0]

\* pcs at which the worker holds a live iterator over conn_dict / user_dict
ConnIterPcs == {"hnc_next", "hnc_send", "bc_next", "bc_send", "dd_next",
                "dd_msg", "dd_send"}
UserIterPcs == {"dd_unext"}

\* the thread has ended: by an uncaught exception, by the KeyError handler, or
\* at the end of _display_disconnection
Terminated == {"crashed", "exited", "closed"}

(***************************************************************************)
(* Python dict operations.                                                 *)
(***************************************************************************)
\* iter(d): the iterator remembers the size of the dict
NewIter(d) == [pos |-> 1, len |-> Len(d), used |-> Len(d)]

\* next(it): "RuntimeError" when the size changed, or when an entry turns up
\* after as many were yielded as the dict held at the start; "stop" at the end
IterNext(d, i) ==
    IF i.used # Len(d) THEN "RuntimeError"
    ELSE IF i.pos > Len(d) THEN "stop"
    ELSE IF i.len = 0 THEN "RuntimeError"
    ELSE "yield"

Advance(i) == [pos |-> i.pos + 1, len |-> i.len - 1, used |-> i.used]

RemoveAt(d, p) == SubSeq(d, 1, p - 1) \o SubSeq(d, p + 1, Len(d))

IndexOf(d, x) == CHOOSE p \in 1 .. Len(d) : d[p] = x

\* an entry before the iterator's position is gone: the entries it has still
\* to visit are the same ones
ShiftIter(i, p) == IF p < i.pos THEN [i EXCEPT !.pos = i.pos - 1] ELSE i

Keys(d) == { d[p] : p \in 1 .. Len(d) }

InSeq(d, x) == \E p \in 1 .. Len(d) : d[p] = x

UserKeys == { user_dict[p].name : p \in 1 .. Len(user_dict) }
UserPos(name) == CHOOSE p \in 1 .. Len(user_dict) : user_dict[p].name = name
UserAddr(name) == user_dict[UserPos(name)].addr

\* user_dict[name] = addr: a known key keeps its place
UserSet(name, addr) ==
    IF name \in UserKeys
    THEN [user_dict EXCEPT ![UserPos(name)].addr = addr]
    ELSE Append(user_dict, [name |-> name, addr |-> addr])

(***************************************************************************)
(* conn.send on the socket of address t.  A closed socket raises OSError   *)
(* (bad file descriptor); with the client gone the bytes are dropped or    *)
(* the call raises BrokenPipeError / ConnectionResetError.                 *)
(***************************************************************************)
SendOutcomes(t) ==
    IF sock[t] = "closed" THEN {"OSError"}
    ELSE IF peer[t] = "up" THEN {"delivered"}
    ELSE {"dropped", "BrokenPipeError"}

\* Server.__init__: both dicts empty, no connection accepted yet
HubInit ==
    /\ conn_dict = <<>>
    /\ user_dict = <<>>
    /\ sock = [a \in Addr |-> "unborn"]
    /\ peer = [a \in Addr |-> "up"]
    /\ pc = [a \in Addr |-> "idle"]
    /\ hdr = [a \in Addr |-> NoHeader]
    /\ inp = [a \in Addr |-> None]
    /\ payload = [a \in Addr |-> None]
    /\ receiver = [a \in Addr |-> None]
    /\ bres = [a \in Addr |-> NoCall]
    /\ mid = [a \in Addr |-> NoId]
    /\ got = [a \in Addr |-> NoGot]
    /\ targets = [a \in Addr |-> {}]
    /\ it = [a \in Addr |-> NoIt]
    /\ tgt = [a \in Addr |-> NoAddr]
    /\ key = [a \in Addr |-> None]
    /\ msg = [a \in Addr |-> None]
    /\ exc = [a \in Addr |-> NoExc]
    /\ lastNb = [a \in Addr |-> NoFrame]
    /\ nframes = 0

Init == HubInit /\ codec = NoCodec

(***************************************************************************)
(* How a worker leaves its straight path.                                  *)
(***************************************************************************)
\* the thread ends: "crashed" by an exception no handler of create_connection
\* catches, "exited" through the KeyError handler, "closed" at the end of
\* _display_disconnection.  Its loop locals die with it.
Ends(w, how, e) ==
    /\ pc' = [pc EXCEPT ![w] = how]
    /\ exc' = [exc EXCEPT ![w] = e]
    /\ it' = [it EXCEPT ![w] = NoIt]
    /\ tgt' = [tgt EXCEPT ![w] = NoAddr]
    /\ key' = [key EXCEPT ![w] = None]
    /\ msg' = [msg EXCEPT ![w] = None]

\* a transport error raised inside the try block: the handler calls
\* _display_disconnection for the worker's own conn and addr
Disconnects(w, e) ==
    /\ pc' = [pc EXCEPT ![w] = "dd_close"]
    /\ exc' = [exc EXCEPT ![w] = e]
    /\ it' = [it EXCEPT ![w] = NoIt]
    /\ tgt' = [tgt EXCEPT ![w] = NoAddr]
    /\ key' = [key EXCEPT ![w] = None]
    /\ msg' = [msg EXCEPT ![w] = None]

\* the worker moves on to pc p
Goto(w, p) == pc' = [pc EXCEPT ![w] = p]

FrameVars == <<hdr, inp, payload, receiver, bres, mid, got, targets, nframes>>
LoopVars == <<it, tgt, key, msg>>
Dicts == <<conn_dict, user_dict>>
Sockets == <<sock, peer>>

(***************************************************************************)
(* launch: the listener accepts the connections one after the other and    *)
(* starts a thread running create_connection for each.                     *)
(***************************************************************************)
Accept(w) ==
    /\ pc[w] = "idle"
    /\ \A v \in Addr : v < w => pc[v] # "idle"
    /\ sock' = [sock EXCEPT ![w] = "open"]
    /\ Goto(w, "register")
    /\ UNCHANGED <<Dicts, peer, FrameVars, LoopVars, exc, lastNb>>
    /\ UNCHANGED codec

(***************************************************************************)
(* handle_new_connection                                                   *)
(***************************************************************************)
\* self.conn_dict[addr] = conn
Register(w) ==
    /\ pc[w] = "register"
    /\ conn_dict' = Append(conn_dict, w)
    /\ Goto(w, "hnc_msg")
    /\ UNCHANGED <<user_dict, Sockets, FrameVars, LoopVars, exc, lastNb>>
    /\ UNCHANGED codec

\* message = str(len(self.conn_dict))
HncMsg(w) ==
    /\ pc[w] = "hnc_msg"
    /\ msg' = [msg EXCEPT ![w] = Str(Len(conn_dict))]
    /\ Goto(w, "hnc_iter")
    /\ UNCHANGED <<Dicts, Sockets, FrameVars, it, tgt, key, exc, lastNb>>
    /\ UNCHANGED codec

\* for socket_ in self.conn_dict.values(): the iterator is made
HncIter(w) ==
    /\ pc[w] = "hnc_iter"
    /\ it' = [it EXCEPT ![w] = NewIter(conn_dict)]
    /\ Goto(w, "hnc_next")
    /\ UNCHANGED <<Dicts, Sockets, FrameVars, tgt, key, msg, exc, lastNb>>
    /\ UNCHANGED codec

\* the loop asks for the next socket; at the end create_connection goes on to
\* its read loop
HncNext(w) ==
    /\ pc[w] = "hnc_next"
    /\ LET r == IterNext(conn_dict, it[w])
       IN  CASE r = "RuntimeError" -> Ends(w, "crashed", "RuntimeError")
             [] r = "stop" ->
                    /\ Goto(w, "read")
                    /\ it' = [it EXCEPT ![w] = NoIt]
                    /\ msg' = [msg EXCEPT ![w] = None]
                    /\ UNCHANGED <<tgt, key, exc>>
             [] r = "yield" ->
                    /\ Goto(w, "hnc_send")
                    /\ it' = [it EXCEPT ![w] = Advance(it[w])]
                    /\ tgt' = [tgt EXCEPT ![w] = conn_dict[it[w].pos]]
                    /\ UNCHANGED <<key, msg, exc>>
    /\ UNCHANGED <<Dicts, Sockets, FrameVars, lastNb>>
    /\ UNCHANGED codec

\* self.send_data(socket_, Commands.CONN_NB, message, is_from_server=True);
\* handle_new_connection runs outside the try block, nothing catches here
HncSend(w) ==
    /\ pc[w] = "hnc_send"
    /\ \E o \in SendOutcomes(tgt[w]) :
          CASE o = "delivered" ->
                   /\ lastNb' = [lastNb EXCEPT
                                   ![tgt[w]] = send_data(CONN_NB, msg[w], TRUE)]
                   /\ Goto(w, "hnc_next")
                   /\ tgt' = [tgt EXCEPT ![w] = NoAddr]
                   /\ UNCHANGED <<it, key, msg, exc>>
            [] o = "dropped" ->
                   /\ Goto(w, "hnc_next")
                   /\ tgt' = [tgt EXCEPT ![w] = NoAddr]
                   /\ UNCHANGED <<it, key, msg, exc, lastNb>>
            [] OTHER ->
                   /\ Ends(w, "crashed", o)
                   /\ UNCHANGED lastNb
    /\ UNCHANGED <<Dicts, Sockets, FrameVars>>
    /\ UNCHANGED codec

(***************************************************************************)
(* create_connection: the read loop.                                       *)
(***************************************************************************)
\* an identification that never takes a username over from another address
match_user_dict_first_writer(address, fields) ==
    LET username == StripSpaces(fields[1])
    IN  IF username # HOME /\ username \notin UserKeys
        THEN UserSet(username, address) ELSE user_dict

\* __match_username_and_address: the dict after the frame's sender identified
match_user_dict(address, fields) ==
    LET username == StripSpaces(fields[1])
    IN  IF username # HOME THEN UserSet(username, address) ELSE user_dict

\* what __match_username_and_address returns
match_receiver(fields) == StripSpaces(fields[2])

\* header, payload = self.read_data(conn), then `if not payload: raise
\* ConnectionAbortedError`, then __match_username_and_address(addr, payload).
\* The bytes may have been sent before the client went away.
ReadFrameOf(w, streams) ==
    /\ pc[w] = "read"
    /\ nframes < MaxFrames
    /\ \E stream \in streams :
          LET f == Received[stream]
              fields == Split(f.payload, ":")
          IN  /\ hdr' = [hdr EXCEPT ![w] = f.header]
              /\ inp' = [inp EXCEPT ![w] = f.payload]
              /\ payload' = [payload EXCEPT ![w] = f.payload]
              /\ IF f.payload = None \/ f.payload = <<>>
                 THEN /\ Disconnects(w, "ConnectionAbortedError")
                      /\ receiver' = [receiver EXCEPT ![w] = None]
                      /\ UNCHANGED user_dict
                 ELSE IF Len(fields) < 2
                 THEN /\ Ends(w, "crashed", "IndexError")
                      /\ receiver' = [receiver EXCEPT ![w] = None]
                      /\ UNCHANGED user_dict
                 ELSE /\ user_dict' = match_user_dict(w, fields)
                      /\ receiver' = [receiver EXCEPT ![w] = match_receiver(fields)]
                      /\ Goto(w, "backend")
                      /\ exc' = [exc EXCEPT ![w] = NoExc]
                      /\ UNCHANGED LoopVars
    /\ bres' = [bres EXCEPT ![w] = NoCall]
    /\ mid' = [mid EXCEPT ![w] = NoId]
    /\ got' = [got EXCEPT ![w] = NoGot]
    /\ targets' = [targets EXCEPT ![w] = {}]
    /\ nframes' = nframes + 1
    /\ UNCHANGED <<conn_dict, Sockets, lastNb>>
    /\ UNCHANGED codec

ReadFrame(w) == ReadFrameOf(w, ClientStreams)

\* read_data on a stream the client has ended: recv returns b"" and the empty
\* payload raises ConnectionAbortedError, or recv raises ConnectionResetError
ReadEnd(w) ==
    /\ pc[w] = "read"
    /\ peer[w] = "gone"
    /\ \E e \in {"ConnectionAbortedError", "ConnectionResetError"} :
          Disconnects(w, e)
    /\ hdr' = [hdr EXCEPT ![w] = read_data(<<>>).header]
    /\ inp' = [inp EXCEPT ![w] = read_data(<<>>).payload]
    /\ payload' = [payload EXCEPT ![w] = read_data(<<>>).payload]
    /\ receiver' = [receiver EXCEPT ![w] = None]
    /\ bres' = [bres EXCEPT ![w] = NoCall]
    /\ mid' = [mid EXCEPT ![w] = NoId]
    /\ got' = [got EXCEPT ![w] = NoGot]
    /\ targets' = [targets EXCEPT ![w] = {}]
    /\ UNCHANGED <<Dicts, Sockets, lastNb, nframes>>
    /\ UNCHANGED codec

\* how Backend.send_message and the indexing of its result can end:
\*   "ok"      status 200 and a body with a message_id
\*   "non200"  send_message returns None, None["message_id"] is a TypeError
\*   "timeout" requests raises its Timeout out of send_message
\*   "nokey"   status 200 and a body without message_id: a KeyError
MessageOutcomes == {"ok", "non200", "timeout", "nokey"}

\* how Backend.update_reaction_nb can end: its status code is not looked at
ReactionOutcomes == {"ok", "timeout"}

\* `if message_id := ...: payload = f"{message_id}:{payload}"`
prefixed(message_id, p) ==
    IF message_id # NoId /\ message_id # 0 THEN Str(message_id) \o <<":">> \o p
    ELSE p

\* send_message_to_backend(header, payload) and the prefixing of the payload
Backend(w) ==
    /\ pc[w] = "backend"
    /\ LET fields == Split(payload[w], ":") IN
       IF hdr[w] \notin Commands
       THEN /\ Ends(w, "crashed", "ValueError")
            /\ UNCHANGED <<payload, bres, mid>>
       ELSE IF hdr[w] = MESSAGE
       THEN IF Len(fields) < 3
            THEN /\ Ends(w, "crashed", "IndexError")
                 /\ UNCHANGED <<payload, bres, mid>>
            ELSE \E o \in MessageOutcomes :
                   /\ bres' = [bres EXCEPT ![w] = o]
                   /\ CASE o = "ok" ->
                             \E message_id \in 0 .. MaxId :
                                /\ mid' = [mid EXCEPT ![w] = message_id]
                                /\ payload' = [payload EXCEPT
                                      ![w] = prefixed(message_id, payload[w])]
                                /\ Goto(w, "route")
                                /\ UNCHANGED <<LoopVars, exc>>
                        [] o = "non200" ->
                             /\ Ends(w, "crashed", "TypeError")
                             /\ UNCHANGED <<payload, mid>>
                        [] o = "timeout" ->
                             /\ Ends(w, "crashed", "Timeout")
                             /\ UNCHANGED <<payload, mid>>
                        [] o = "nokey" ->
                             /\ Ends(w, "exited", "KeyError")
                             /\ UNCHANGED <<payload, mid>>
       ELSE IF hdr[w] \in {ADD_REACT, RM_REACT}
       THEN IF Len(fields) < 3 \/ Len(Split(fields[3], ";")) < 2
            THEN /\ Ends(w, "crashed", "IndexError")
                 /\ UNCHANGED <<payload, bres, mid>>
            ELSE \E o \in ReactionOutcomes :
                   /\ bres' = [bres EXCEPT ![w] = o]
                   /\ IF o = "ok"
                      THEN /\ Goto(w, "route")
                           /\ UNCHANGED <<LoopVars, exc>>
                      ELSE Ends(w, "crashed", "Timeout")
                   /\ UNCHANGED <<payload, mid>>
       ELSE /\ Goto(w, "route")
            /\ UNCHANGED <<payload, bres, mid, LoopVars, exc>>
    /\ UNCHANGED <<Dicts, Sockets, hdr, inp, receiver, got, targets, nframes,
                   lastNb>>
    /\ UNCHANGED codec

\* `if receiver == "home": for socket_ in self.conn_dict.values()` makes the
\* iterator; otherwise `if receiver in self.user_dict` is evaluated
Route(w) ==
    /\ pc[w] = "route"
    /\ IF receiver[w] = HOME
       THEN /\ it' = [it EXCEPT ![w] = NewIter(conn_dict)]
            /\ targets' = [targets EXCEPT ![w] = Keys(conn_dict)]
            /\ Goto(w, "bc_next")
       ELSE /\ Goto(w, IF receiver[w] \in UserKeys THEN "uni_resolve" ELSE "echo")
            /\ UNCHANGED <<it, targets>>
    /\ UNCHANGED <<Dicts, Sockets, hdr, inp, payload, receiver, bres, mid, got,
                   nframes, tgt, key, msg, exc, lastNb>>
    /\ UNCHANGED codec

\* the broadcast loop asks for the next socket; at its end, `continue`
BcNext(w) ==
    /\ pc[w] = "bc_next"
    /\ LET r == IterNext(conn_dict, it[w])
       IN  CASE r = "RuntimeError" -> Ends(w, "crashed", "RuntimeError")
             [] r = "stop" ->
                    /\ Goto(w, "read")
                    /\ it' = [it EXCEPT ![w] = NoIt]
                    /\ UNCHANGED <<tgt, key, msg, exc>>
             [] r = "yield" ->
                    /\ Goto(w, "bc_send")
                    /\ it' = [it EXCEPT ![w] = Advance(it[w])]
                    /\ tgt' = [tgt EXCEPT ![w] = conn_dict[it[w].pos]]
                    /\ UNCHANGED <<key, msg, exc>>
    /\ UNCHANGED <<Dicts, Sockets, FrameVars, lastNb>>
    /\ UNCHANGED codec

\* a send that returns before the frame is on the wire, and never puts it there
Relay_unsent(w, next) ==
    /\ Goto(w, next)
    /\ tgt' = [tgt EXCEPT ![w] = NoAddr]
    /\ UNCHANGED <<it, key, msg, exc, got>>

\* self.send_data(<socket of tgt>, Commands(header), payload) inside the try
\* block, and where the worker goes after it
Relay(w, next) ==
    \E o \in SendOutcomes(tgt[w]) :
       CASE o = "delivered" ->
                /\ got' = [got EXCEPT ![w][tgt[w]] = @ + 1]
                /\ Goto(w, next)
                /\ tgt' = [tgt EXCEPT ![w] = NoAddr]
                /\ UNCHANGED <<it, key, msg, exc>>
         [] o = "dropped" ->
                /\ Goto(w, next)
                /\ tgt' = [tgt EXCEPT ![w] = NoAddr]
                /\ UNCHANGED <<it, key, msg, exc, got>>
         [] o = "BrokenPipeError" ->
                /\ Disconnects(w, o)
                /\ UNCHANGED got
         [] OTHER ->
                /\ Ends(w, "crashed", o)
                /\ UNCHANGED got

BcSend(w) ==
    /\ pc[w] = "bc_send"
    /\ Relay(w, "bc_next")
    /\ UNCHANGED <<Dicts, Sockets, hdr, inp, payload, receiver, bres, mid,
                   targets, nframes, lastNb>>
    /\ UNCHANGED codec

\* self.user_dict[receiver]
UniResolve(w) ==
    /\ pc[w] = "uni_resolve"
    /\ IF receiver[w] \in UserKeys
       THEN /\ tgt' = [tgt EXCEPT ![w] = UserAddr(receiver[w])]
            /\ Goto(w, "uni_conn")
            /\ UNCHANGED <<it, key, msg, exc>>
       ELSE Ends(w, "exited", "KeyError")
    /\ UNCHANGED <<Dicts, Sockets, FrameVars, lastNb>>
    /\ UNCHANGED codec

\* self.conn_dict[<the resolved address>]
UniConn(w) ==
    /\ pc[w] = "uni_conn"
    /\ IF InSeq(conn_dict, tgt[w])
       THEN /\ Goto(w, "uni_send")
            /\ UNCHANGED <<LoopVars, exc>>
       ELSE Ends(w, "exited", "KeyError")
    /\ UNCHANGED <<Dicts, Sockets, FrameVars, lastNb>>
    /\ UNCHANGED codec

\* the send to the receiver
UniSend(w) ==
    /\ pc[w] = "uni_send"
    /\ Relay(w, "echo")
    /\ UNCHANGED <<Dicts, Sockets, hdr, inp, payload, receiver, bres, mid,
                   targets, nframes, lastNb>>
    /\ UNCHANGED codec

\* "Send to the sender anyway": self.conn_dict[addr] and the send
Echo(w) ==
    /\ pc[w] = "echo"
    /\ IF InSeq(conn_dict, w)
       THEN \E o \in SendOutcomes(w) :
              CASE o = "delivered" ->
                       /\ got' = [got EXCEPT ![w][w] = @ + 1]
                       /\ Goto(w, "read")
                       /\ UNCHANGED <<LoopVars, exc>>
                [] o = "dropped" ->
                       /\ Goto(w, "read")
                       /\ UNCHANGED <<LoopVars, exc, got>>
                [] o = "BrokenPipeError" ->
                       /\ Disconnects(w, o)
                       /\ UNCHANGED got
                [] OTHER ->
                       /\ Ends(w, "crashed", o)
                       /\ UNCHANGED got
       ELSE /\ Ends(w, "exited", "KeyError")
            /\ UNCHANGED got
    /\ UNCHANGED <<Dicts, Sockets, hdr, inp, payload, receiver, bres, mid,
                   targets, nframes, lastNb>>
    /\ UNCHANGED codec

(***************************************************************************)
(* _display_disconnection(conn, addr), called from the handler of the      *)
(* transport errors: an exception raised in here is caught by nothing.     *)
(***************************************************************************)
\* conn.close(); the frame's locals are not read again
DdClose(w) ==
    /\ pc[w] = "dd_close"
    /\ sock' = [sock EXCEPT ![w] = "closed"]
    /\ Goto(w, "dd_pop")
    /\ exc' = [exc EXCEPT ![w] = NoExc]
    /\ hdr' = [hdr EXCEPT ![w] = NoHeader]
    /\ inp' = [inp EXCEPT ![w] = None]
    /\ payload' = [payload EXCEPT ![w] = None]
    /\ receiver' = [receiver EXCEPT ![w] = None]
    /\ bres' = [bres EXCEPT ![w] = NoCall]
    /\ mid' = [mid EXCEPT ![w] = NoId]
    /\ got' = [got EXCEPT ![w] = NoGot]
    /\ targets' = [targets EXCEPT ![w] = {}]
    /\ UNCHANGED <<Dicts, peer, LoopVars, nframes, lastNb>>
    /\ UNCHANGED codec

\* a disconnection that leaves the address registered
conn_dict_pop_skipped(addr) == conn_dict

\* self.conn_dict.pop(addr)
conn_dict_pop(addr) == RemoveAt(conn_dict, IndexOf(conn_dict, addr))

DdPop(w) ==
    /\ pc[w] = "dd_pop"
    /\ IF InSeq(conn_dict, w)
       THEN /\ conn_dict' = conn_dict_pop(w)
            /\ it' = [a \in Addr |->
                        IF pc[a] \in ConnIterPcs
                        THEN ShiftIter(it[a], IndexOf(conn_dict, w)) ELSE it[a]]
            /\ Goto(w, "dd_uiter")
            /\ UNCHANGED <<tgt, key, msg, exc>>
       ELSE /\ Ends(w, "crashed", "KeyError")
            /\ UNCHANGED conn_dict
    /\ UNCHANGED <<user_dict, Sockets, FrameVars, lastNb>>
    /\ UNCHANGED codec

\* for key, value in self.user_dict.items(): the iterator is made
DdUIter(w) ==
    /\ pc[w] = "dd_uiter"
    /\ it' = [it EXCEPT ![w] = NewIter(user_dict)]
    /\ Goto(w, "dd_unext")
    /\ UNCHANGED <<Dicts, Sockets, FrameVars, tgt, key, msg, exc, lastNb>>
    /\ UNCHANGED codec

\* the loop asks for the next item and tests `value == addr`
DdUNext(w) ==
    /\ pc[w] = "dd_unext"
    /\ LET r == IterNext(user_dict, it[w])
       IN  CASE r = "RuntimeError" -> Ends(w, "crashed", "RuntimeError")
             [] r = "stop" ->
                    /\ Goto(w, "dd_already")
                    /\ it' = [it EXCEPT ![w] = NoIt]
                    /\ UNCHANGED <<tgt, key, msg, exc>>
             [] r = "yield" ->
                    IF user_dict[it[w].pos].addr = w
                    THEN /\ Goto(w, "dd_upop")
                         /\ key' = [key EXCEPT ![w] = user_dict[it[w].pos].name]
                         /\ it' = [it EXCEPT ![w] = NoIt]
                         /\ UNCHANGED <<tgt, msg, exc>>
                    ELSE /\ it' = [it EXCEPT ![w] = Advance(it[w])]
                         /\ UNCHANGED <<pc, tgt, key, msg, exc>>
    /\ UNCHANGED <<Dicts, Sockets, FrameVars, lastNb>>
    /\ UNCHANGED codec

\* self.user_dict.pop(key)
user_dict_pop(name) == RemoveAt(user_dict, UserPos(name))

\* self.user_dict.pop(key); break
DdUPop(w) ==
    /\ pc[w] = "dd_upop"
    /\ IF key[w] \in UserKeys
       THEN /\ user_dict' = user_dict_pop(key[w])
            /\ it' = [a \in Addr |->
                        IF pc[a] \in UserIterPcs
                        THEN ShiftIter(it[a], UserPos(key[w])) ELSE it[a]]
            /\ Goto(w, "dd_already")
            /\ key' = [key EXCEPT ![w] = None]
            /\ UNCHANGED <<tgt, msg, exc>>
       ELSE /\ Ends(w, "crashed", "KeyError")
            /\ UNCHANGED user_dict
    /\ UNCHANGED <<conn_dict, Sockets, FrameVars, lastNb>>
    /\ UNCHANGED codec

\* already_connected = len(self.conn_dict) >= 1; if already_connected: ...
DdAlready(w) ==
    /\ pc[w] = "dd_already"
    /\ IF Len(conn_dict) >= 1
       THEN /\ Goto(w, "dd_iter")
            /\ UNCHANGED <<LoopVars, exc>>
       ELSE Ends(w, "closed", NoExc)
    /\ UNCHANGED <<Dicts, Sockets, FrameVars, lastNb>>
    /\ UNCHANGED codec

\* for address, socket_ in self.conn_dict.items(): the iterator is made
DdIter(w) ==
    /\ pc[w] = "dd_iter"
    /\ it' = [it EXCEPT ![w] = NewIter(conn_dict)]
    /\ Goto(w, "dd_next")
    /\ UNCHANGED <<Dicts, Sockets, FrameVars, tgt, key, msg, exc, lastNb>>
    /\ UNCHANGED codec

\* the loop asks for the next item and tests `address != addr`
DdNext(w) ==
    /\ pc[w] = "dd_next"
    /\ LET r == IterNext(conn_dict, it[w])
       IN  CASE r = "RuntimeError" -> Ends(w, "crashed", "RuntimeError")
             [] r = "stop" -> Ends(w, "closed", NoExc)
             [] r = "yield" ->
                    /\ it' = [it EXCEPT ![w] = Advance(it[w])]
                    /\ IF conn_dict[it[w].pos] # w
                       THEN /\ Goto(w, "dd_msg")
                            /\ tgt' = [tgt EXCEPT ![w] = conn_dict[it[w].pos]]
                       ELSE UNCHANGED <<pc, tgt>>
                    /\ UNCHANGED <<key, msg, exc>>
    /\ UNCHANGED <<Dicts, Sockets, FrameVars, lastNb>>
    /\ UNCHANGED codec

\* message = str(len(self.conn_dict))
DdMsg(w) ==
    /\ pc[w] = "dd_msg"
    /\ msg' = [msg EXCEPT ![w] = Str(Len(conn_dict))]
    /\ Goto(w, "dd_send")
    /\ UNCHANGED <<Dicts, Sockets, FrameVars, it, tgt, key, exc, lastNb>>
    /\ UNCHANGED codec

\* self.send_data(socket_, Commands.CONN_NB, message, is_from_server=True)
DdSend(w) ==
    /\ pc[w] = "dd_send"
    /\ \E o \in SendOutcomes(tgt[w]) :
          CASE o = "delivered" ->
                   /\ lastNb' = [lastNb EXCEPT
                                   ![tgt[w]] = send_data(CONN_NB, msg[w], TRUE)]
                   /\ Goto(w, "dd_next")
                   /\ tgt' = [tgt EXCEPT ![w] = NoAddr]
                   /\ msg' = [msg EXCEPT ![w] = None]
                   /\ UNCHANGED <<it, key, exc>>
            [] o = "dropped" ->
                   /\ Goto(w, "dd_next")
                   /\ tgt' = [tgt EXCEPT ![w] = NoAddr]
                   /\ msg' = [msg EXCEPT ![w] = None]
                   /\ UNCHANGED <<it, key, exc, lastNb>>
            [] OTHER ->
                   /\ Ends(w, "crashed", o)
                   /\ UNCHANGED lastNb
    /\ UNCHANGED <<Dicts, Sockets, FrameVars>>
    /\ UNCHANGED codec

(***************************************************************************)
(* The client of a connection goes away (closes or loses its end).         *)
(***************************************************************************)
PeerClose(a) ==
    /\ sock[a] = "open"
    /\ peer[a] = "up"
    /\ peer' = [peer EXCEPT ![a] = "gone"]
    /\ UNCHANGED <<Dicts, sock, pc, FrameVars, LoopVars, exc, lastNb, codec>>

Next ==
    \E w \in Addr :
       \/ Accept(w)
       \/ Register(w)
       \/ HncMsg(w)
       \/ HncIter(w)
       \/ HncNext(w)
       \/ HncSend(w)
       \/ ReadFrame(w)
       \/ ReadEnd(w)
       \/ Backend(w)
       \/ Route(w)
       \/ BcNext(w)
       \/ BcSend(w)
       \/ UniResolve(w)
       \/ UniConn(w)
       \/ UniSend(w)
       \/ Echo(w)
       \/ DdClose(w)
       \/ DdPop(w)
       \/ DdUIter(w)
       \/ DdUNext(w)
       \/ DdUPop(w)
       \/ DdAlready(w)
       \/ DdIter(w)
       \/ DdNext(w)
       \/ DdMsg(w)
       \/ DdSend(w)
       \/ PeerClose(w)

Spec == Init /\ [][Next]_vars

(***************************************************************************)
(* Scheduling.  Every thread that can take a step of its own eventually    *)
(* takes one: the listener accepts, a worker goes on through its code, and *)
(* a recv on a stream the client has ended returns.  Nothing obliges a     *)
(* client to send a frame or to go away.                                   *)
(***************************************************************************)
WorkerStep(w) ==
    \/ Accept(w)
    \/ Register(w)
    \/ HncMsg(w)
    \/ HncIter(w)
    \/ HncNext(w)
    \/ HncSend(w)
    \/ ReadEnd(w)
    \/ Backend(w)
    \/ Route(w)
    \/ BcNext(w)
    \/ BcSend(w)
    \/ UniResolve(w)
    \/ UniConn(w)
    \/ UniSend(w)
    \/ Echo(w)
    \/ DdClose(w)
    \/ DdPop(w)
    \/ DdUIter(w)
    \/ DdUNext(w)
    \/ DdUPop(w)
    \/ DdAlready(w)
    \/ DdIter(w)
    \/ DdNext(w)
    \/ DdMsg(w)
    \/ DdSend(w)

Fairness == \A w \in Addr : WF_vars(WorkerStep(w))

SpecFair == Init /\ [][Next]_vars /\ Fairness

(***************************************************************************)
(* The hub with clients that connect and leave without sending a frame     *)
(* that carries a payload: accepts, CONN_NB notices and disconnections.    *)
(***************************************************************************)
EmptyStreams == { stream \in ClientStreams : Received[stream].payload = <<>> }

ReadEmpty(w) == ReadFrameOf(w, EmptyStreams)

NextLifecycle ==
    \E w \in Addr :
       \/ Accept(w)
       \/ Register(w)
       \/ HncMsg(w)
       \/ HncIter(w)
       \/ HncNext(w)
       \/ HncSend(w)
       \/ ReadEmpty(w)
       \/ ReadEnd(w)
       \/ DdClose(w)
       \/ DdPop(w)
       \/ DdUIter(w)
       \/ DdUNext(w)
       \/ DdAlready(w)
       \/ DdIter(w)
       \/ DdNext(w)
       \/ DdMsg(w)
       \/ DdSend(w)
       \/ PeerClose(w)

SpecLifecycle == Init /\ [][NextLifecycle]_vars

(***************************************************************************)
(* The frame codec on its own: a frame is given, send_data encodes it,     *)
(* read_data decodes the bytes.                                            *)
(***************************************************************************)
CodecChars == {"a", ":", " ", "s", "é", "\n"}

CodecPayloads == UNION { [1 .. n -> CodecChars] : n \in 0 .. MaxLen }

InitCodec ==
    /\ HubInit
    /\ \E c \in Commands, p \in CodecPayloads, s \in BOOLEAN :
          codec = [phase |-> "given", command |-> c, payload |-> p,
                   from_server |-> s]

Encode ==
    /\ codec.phase = "given"
    /\ codec' = [phase |-> "encoded", command |-> codec.command,
                 payload |-> codec.payload, from_server |-> codec.from_server,
                 wire |-> send_data(codec.command, codec.payload,
                                    codec.from_server)]
    /\ UNCHANGED <<Dicts, Sockets, pc, FrameVars, LoopVars, exc, lastNb>>

Decode ==
    /\ codec.phase = "encoded"
    /\ codec' = [phase |-> "decoded", command |-> codec.command,
                 payload |-> codec.payload, from_server |-> codec.from_server,
                 wire |-> codec.wire, read |-> read_data(codec.wire)]
    /\ UNCHANGED <<Dicts, Sockets, pc, FrameVars, LoopVars, exc, lastNb>>

NextCodec == Encode \/ Decode

SpecCodec == InitCodec /\ [][NextCodec]_vars

(***************************************************************************)
(* Properties.                                                             *)
(***************************************************************************)
Registered(a) == InSeq(conn_dict, a)

\* the worker is inside _display_disconnection, past conn.close()
AfterClosePcs == {"dd_pop", "dd_uiter", "dd_unext", "dd_upop", "dd_already",
                  "dd_iter", "dd_next", "dd_msg", "dd_send", "closed"}
\* ... and past self.conn_dict.pop(addr)
AfterPopPcs == AfterClosePcs \ {"dd_pop"}
\* ... and still removing its username
UnregisteringPcs == {"dd_uiter", "dd_unext", "dd_upop"}
\* the worker is between reading a frame and the end of its routing
RoutingPcs == {"backend", "route", "bc_next", "bc_send", "uni_resolve",
               "uni_conn", "uni_send", "echo"}
\* the worker is inside a loop over conn_dict, or holds an address or socket
\* it resolved and has not used yet
CriticalPcs == ConnIterPcs \cup {"uni_conn", "uni_send"}

\* the client of address a can be handed a frame
Reachable(a) == sock[a] = "open" /\ peer[a] = "up"

\* C1: every address stored as a value of user_dict is a key of conn_dict
\* (while the worker of the address is between its two removals the username
\* is allowed to lag).
C1_UsersPointAtConnections ==
    \A p \in 1 .. Len(user_dict) :
       \/ Registered(user_dict[p].addr)
       \/ pc[user_dict[p].addr] \in UnregisteringPcs

\* C2: when the persistence call of a MESSAGE frame fails, the worker goes on:
\* it stays in its loop with the payload unprefixed, and once it is back at
\* its read the sender's client, if it can be reached, has the frame.
C2_PersistenceFailureStillRelays ==
    \A w \in Addr :
       hdr[w] = MESSAGE /\ bres[w] \in {"non200", "timeout", "nokey"}
       => /\ pc[w] \in RoutingPcs \cup {"read"}
          /\ payload[w] = inp[w]
          /\ pc[w] = "read" /\ Reachable(w) => got[w][w] >= 1

\* C3: once the worker is done with a frame whose command byte is outside
\* 0..7, its connection is closed and out of the registry.
C3_InvalidCommandClosesConnection ==
    \A w \in Addr :
       hdr[w] # NoHeader /\ hdr[w] \notin Commands /\ pc[w] \notin RoutingPcs
       => sock[w] = "closed" /\ ~Registered(w)

\* C4: a MESSAGE frame not addressed to "home", for which the persistence
\* service returned id m, is relayed with the payload m:S:R:text; only the
\* sender and the receiver's connection get it, and once the worker is back
\* at its read the sender has it.
C4_UnicastCarriesMessageId ==
    \A w \in Addr :
       hdr[w] = MESSAGE /\ bres[w] = "ok" /\ receiver[w] # HOME
       => /\ payload[w] = Str(mid[w]) \o <<":">> \o inp[w]
          /\ \A a \in Addr :
                got[w][a] > 0
                => a = w \/ \E p \in 1 .. Len(user_dict) : user_dict[p].addr = a
          /\ pc[w] = "read" /\ Reachable(w) => got[w][w] >= 1

\* C5: once the routing of a frame addressed to "home" is over, every
\* connection that was registered when the broadcast began, and whose client
\* can still be reached, has the frame exactly once.
C5_BroadcastReachesEveryConnectionOnce ==
    \A w \in Addr :
       receiver[w] = HOME /\ pc[w] \notin {"backend", "route", "bc_next", "bc_send"}
       => \A a \in Addr :
             /\ got[w][a] <= 1
             /\ a \in targets[w] /\ Reachable(a) /\ Registered(a)
                => got[w][a] = 1

\* no worker is inside handle_new_connection or _display_disconnection, and
\* none has ended otherwise than by a completed disconnection
Quiescent == \A a \in Addr : pc[a] \in {"idle", "read", "closed"}
Connects == Cardinality({ a \in Addr : pc[a] # "idle" })
Disconnects_ == Cardinality({ a \in Addr : pc[a] = "closed" })

\* C6: when N connects and M disconnects have run to completion, conn_dict
\* holds N - M entries and the last CONN_NB notice of every remaining
\* connection carries N - M.
C6_LastNoticeCarriesTheCount ==
    Quiescent
    => /\ Len(conn_dict) = Connects - Disconnects_
       /\ \A a \in Addr :
             pc[a] = "read" /\ peer[a] = "up"
             => lastNb[a] = send_data(CONN_NB, Str(Connects - Disconnects_), TRUE)

\* C7: decoding what send_data encoded gives back the command and, after the
\* "server:" prefix when the frame is from the server, the payload, for every
\* payload without a newline.
C7_RoundTrip ==
    codec.phase = "decoded" /\ ~InSeq(codec.payload, "\n")
    => /\ codec.read.header = codec.command
       /\ codec.read.payload =
             (IF codec.from_server THEN SERVER_PREFIX ELSE <<>>) \o codec.payload

\* C7 witness: a frame from the server with a two-byte character was decoded
C7_Witness ==
    /\ codec.phase = "decoded"
    /\ codec.from_server
    /\ codec.command = MESSAGE
    /\ InSeq(codec.payload, "é")
    /\ ~InSeq(codec.payload, "\n")

\* C8: a frame not addressed to "home" that reached the routing is relayed to
\* its sender whatever becomes of the receiver: when the worker has left the
\* routing, the sender's client (if it can be reached) has the frame, and
\* with an unknown receiver the worker is back at its read and nobody else
\* has the frame.
C8_SenderAlwaysGetsItsFrame ==
    \A w \in Addr :
       /\ receiver[w] # None /\ receiver[w] # HOME
       /\ pc[w] \notin RoutingPcs
       /\ exc[w] \notin {"ValueError", "IndexError", "TypeError", "Timeout"}
       /\ bres[w] # "nokey"
       => /\ Reachable(w) => got[w][w] >= 1
          /\ (\A a \in Addr : a # w => got[w][a] = 0) /\ peer[w] = "up"
                => pc[w] = "read"

\* C9: no step changes conn_dict or user_dict while a worker is inside a loop
\* over conn_dict or between resolving a receiver and sending to it.
C9_RegistryIsMutuallyExclusive ==
    [][ conn_dict' # conn_dict \/ user_dict' # user_dict
        => \A v \in Addr : pc[v] \notin CriticalPcs ]_vars

\* C10: on the disconnect path the socket is closed first, then the address
\* is removed from conn_dict, and only then notices are built and sent; the
\* notice carries the number of connections that remain (the one that closed
\* is not counted), is delivered only to a registered connection other than
\* the closed one, and none is sent when conn_dict is empty.
C10_DisconnectOrder ==
    [][ \A w \in Addr :
           /\ pc'[w] \in AfterClosePcs => sock'[w] = "closed"
           /\ pc'[w] \in AfterPopPcs => ~InSeq(conn_dict', w)
           /\ pc[w] = "dd_already" /\ pc'[w] # pc[w] /\ Len(conn_dict) = 0
              => pc'[w] = "closed"
           /\ pc[w] = "dd_msg" /\ pc'[w] = "dd_send"
              => msg'[w] = Str(Cardinality(Keys(conn_dict) \ {w}))
           /\ pc[w] = "dd_send" /\ pc'[w] = "dd_next" /\ Reachable(tgt[w])
              => /\ tgt[w] # w
                 /\ Registered(tgt[w])
                 /\ lastNb'[tgt[w]] = send_data(CONN_NB, msg[w], TRUE)
      ]_vars

\* C10 witness: the second connection has closed, unregistered and told the
\* first one that one connection remains
C10_Witness ==
    /\ NumConn >= 2
    /\ pc[2] = "closed" /\ sock[2] = "closed"
    /\ conn_dict = <<1>>
    /\ pc[1] = "read"
    /\ lastNb[1] = send_data(CONN_NB, Str(1), TRUE)
    /\ lastNb[2] = send_data(CONN_NB, Str(2), TRUE)

\* the worker is inside handle_new_connection, past the registration
HncPcs == {"hnc_msg", "hnc_iter", "hnc_next", "hnc_send"}

\* the addresses inserted into conn_dict no later than address a
UpTo(a) == { conn_dict[p] : p \in 1 .. IndexOf(conn_dict, a) }

\* C11: on accept the connection is registered before any notice is built or
\* sent; the notice a client is handed is "server:" followed by the decimal
\* count of conn_dict; the worker of a connection whose client is there
\* leaves handle_new_connection only into its read loop, and when it does,
\* every connection that was registered with it (the new one included) and
\* can be reached has been handed a notice.
C11_AcceptNotifiesEveryone ==
    [][ \A w \in Addr :
           /\ pc'[w] \in HncPcs => InSeq(conn_dict', w)
           /\ pc[w] = "hnc_msg" /\ pc'[w] = "hnc_iter"
              => msg'[w] = Str(Len(conn_dict))
           /\ pc[w] = "hnc_send" /\ pc'[w] = "hnc_next" /\ Reachable(tgt[w])
              => lastNb'[tgt[w]] =
                    <<CONN_NB>> \o Utf8Encode(SERVER_PREFIX \o msg[w] \o <<"\n">>)
           /\ pc[w] \in HncPcs /\ pc'[w] # pc[w] /\ Reachable(w)
              => pc'[w] \in HncPcs \cup {"read"}
           /\ pc[w] \in HncPcs /\ pc'[w] = "read"
              => \A a \in UpTo(w) : Reachable(a) => lastNb[a] # NoFrame
      ]_vars

\* C12: a worker whose dispatch missed a registry lookup (the KeyError of
\* self.conn_dict[...] or self.user_dict[...]) has not ended: it is still in
\* its loop.  Only the KeyError of a persistence answer without message_id is
\* left aside.
C12_LookupMissKeepsTheLoop ==
    \A w \in Addr :
       exc[w] = "KeyError" /\ bres[w] # "nokey" => pc[w] \notin Terminated

\* the payload p of a frame with command byte h is malformed for the split
\* rule: fewer than two fields, fewer than three for MESSAGE, fewer than
\* three or no ";" in the third for ADD_REACT / RM_REACT
Malformed(h, p) ==
    LET fields == Split(p, ":")
    IN  \/ Len(fields) < 2
        \/ h = MESSAGE /\ Len(fields) < 3
        \/ h \in {ADD_REACT, RM_REACT}
           /\ (Len(fields) < 3 \/ Len(Split(fields[3], ";")) < 2)

\* the worker is inside _display_disconnection
DdPcs == {"dd_close", "dd_pop", "dd_uiter", "dd_unext", "dd_upop", "dd_already",
          "dd_iter", "dd_next", "dd_msg", "dd_send"}

\* C13: once a worker is done with a malformed frame, either it dropped the
\* frame and is back at its read, or it is closing its connection, or the
\* connection is closed and unregistered.
C13_MalformedFrameDropsOrCloses ==
    \A w \in Addr :
       /\ inp[w] # None /\ inp[w] # <<>>
       /\ Malformed(hdr[w], inp[w])
       /\ pc[w] \notin RoutingPcs
       => \/ pc[w] = "read"
          \/ pc[w] \in DdPcs
          \/ sock[w] = "closed" /\ ~Registered(w)

\* the usernames of a user dict d, and the address d holds for one of them
NamesOf(d) == { d[p].name : p \in 1 .. Len(d) }
AddrOf(d, name) == d[CHOOSE p \in 1 .. Len(d) : d[p].name = name].addr

\* C14: the step in which the worker of address w takes in a frame with a
\* sender and a receiver field leaves user_dict holding u -> w for the sender
\* u (spaces removed) unless u is "home", whatever u pointed at before, and
\* changes no other username; a sender "home" leaves user_dict as it was; and
\* "home" is never a key of user_dict.
C14_IdentifyLastWriterWins ==
    /\ HOME \notin NamesOf(user_dict)
    /\ [][ /\ HOME \notin NamesOf(user_dict')
           /\ \A w \in Addr :
                 /\ pc[w] = "read" /\ pc'[w] # "read"
                 /\ inp'[w] # None /\ Len(Split(inp'[w], ":")) >= 2
                 => LET u == StripSpaces(Split(inp'[w], ":")[1])
                    IN  IF u = HOME THEN user_dict' = user_dict
                        ELSE /\ NamesOf(user_dict') = NamesOf(user_dict) \cup {u}
                             /\ AddrOf(user_dict', u) = w
                             /\ \A n \in NamesOf(user_dict) \ {u} :
                                   AddrOf(user_dict', n) = AddrOf(user_dict, n)
         ]_vars

\* C14 witness: both connections identified as "a", connection 2 last, and
\* neither has unregistered: the one entry of "a" now points at 2
C14_Witness ==
    /\ NumConn >= 2
    /\ inp[1] = <<"a", ":", "b", ":", "x">>
    /\ inp[2] = <<"a", " ", ":", "b", ":", "x", ":", "1">>
    /\ user_dict = <<[name |-> <<"a">>, addr |-> 2]>>

\* C15: what the worker relays after send_message_to_backend.  For MESSAGE
\* with a persistence answer carrying message id m (0 included) the payload is
\* m ":" and the payload read; for ADD_REACT / RM_REACT the update was
\* requested, the payload is the one read and the worker goes on whatever
\* became of the update; for every other command no call was made and the
\* payload is the one read.
C15_RelayedPayloadByCommand ==
    \A w \in Addr :
       /\ pc[w] \in RoutingPcs \ {"backend"} /\ hdr[w] = MESSAGE /\ bres[w] = "ok"
          => payload[w] = Str(mid[w]) \o <<":">> \o inp[w]
       /\ pc[w] \in RoutingPcs \ {"backend"} /\ hdr[w] \in {ADD_REACT, RM_REACT}
          => bres[w] # NoCall /\ payload[w] = inp[w]
       /\ hdr[w] \in {ADD_REACT, RM_REACT} /\ bres[w] # NoCall
          => exc[w] # "Timeout"
       /\ pc[w] \in RoutingPcs \ {"backend"} /\ hdr[w] \notin {MESSAGE, ADD_REACT, RM_REACT}
          => bres[w] = NoCall /\ payload[w] = inp[w]

\* C16: a registered connection whose client has ended the stream, or whose
\* worker has met the empty payload or a transport error, is eventually
\* closed and out of conn_dict.
C16_PeerEndLeadsToClosed ==
    \A a \in Addr :
       (Registered(a) /\ (peer[a] = "gone" \/ pc[a] = "dd_close"))
          ~> (sock[a] = "closed" /\ ~Registered(a))

\* the worker is about to call send_data on the socket of tgt
SendPcs == {"hnc_send", "bc_send", "uni_send", "dd_send"}

\* C17: a closed connection is written to by nobody: no worker executes a
\* send_data (relay, echo, broadcast or CONN_NB notice) on a socket that its
\* owner has closed.
C17_ClosedIsNeverWrittenTo ==
    [][ \A w \in Addr :
           /\ pc[w] \in SendPcs /\ pc'[w] # pc[w] => sock[tgt[w]] # "closed"
           /\ pc[w] = "echo" /\ pc'[w] # pc[w] /\ Registered(w)
              => sock[w] # "closed"
      ]_vars

\* C18: every address in conn_dict has a worker that has not ended: a worker
\* never terminates, by whatever exit, while its own address is registered.
C18_RegisteredHasAWorker ==
    \A a \in Addr : Registered(a) => pc[a] \notin Terminated

\* C19: when a worker relays a frame to another connection whose client is
\* gone, whatever the send does, the worker goes on with the same relay (the
\* next broadcast target, or the echo to its own connection): it does not
\* turn to closing and unregistering its own connection.
C19_RelayFailureIsIsolated ==
    [][ \A w \in Addr :
           /\ pc[w] \in {"bc_send", "uni_send"} /\ pc'[w] # pc[w]
           /\ tgt[w] # w /\ sock[tgt[w]] = "open" /\ peer[tgt[w]] = "gone"
           => /\ pc'[w] = (IF pc[w] = "bc_send" THEN "bc_next" ELSE "echo")
              /\ sock'[w] = sock[w]
              /\ Registered(w) => InSeq(conn_dict', w)
      ]_vars

\* C20: a worker is done with a frame before it reads the next one, so the
\* frames of one connection reach a destination in the order they were sent.
\* A frame is handed to a client only by a send of the worker that read it,
\* while that frame is the one the worker is routing; and in the step in which
\* a worker reads again, no loop or send of the frame before is pending and
\* every write of that frame has been done: its broadcast reached each target
\* that is still registered and reachable, or its echo reached the sender.
C20_PerSenderOrdering ==
    [][ \A w \in Addr :
           /\ \A a \in Addr :
                 got'[w][a] > got[w][a]
                 => /\ pc[w] \in {"bc_send", "uni_send", "echo"}
                    /\ hdr'[w] = hdr[w] /\ inp'[w] = inp[w]
                    /\ payload'[w] = payload[w]
                    /\ nframes' = nframes
           /\ pc[w] = "read" /\ pc'[w] # "read"
              => /\ tgt[w] = NoAddr /\ it[w] = NoIt
                 /\ inp[w] # None /\ receiver[w] = HOME
                    => \A a \in targets[w] :
                          Registered(a) /\ Reachable(a) => got[w][a] >= 1
                 /\ inp[w] # None /\ receiver[w] # HOME /\ Reachable(w)
                    => got[w][w] >= 1
      ]_vars

\* C20 witness: connection 1 sent "a:b:x" and then "b:a:x"; both came back to
\* it, the second one twice (as the receiver "a" and as the sender)
C20_Witness ==
    /\ nframes = 2 /\ pc[1] = "read" /\ peer[1] = "up"
    /\ \A a \in Addr \ {1} : pc[a] = "idle"
    /\ inp[1] = <<"b", ":", "a", ":", "x">>
    /\ user_dict = <<[name |-> <<"a">>, addr |-> 1], [name |-> <<"b">>, addr |-> 1]>>
    /\ got[1][1] = 2

====
